---- MODULE Spec2Model ----
(***************************************************************************)
(* ScriptCoroutine<State> / CustomScript::getCoroutine / Binding::Yield    *)
(* and the Main tick loop of siv_as_coro, over an AngelScript engine that  *)
(* is modelled by the part of its API the code calls: CreateContext,       *)
(* Prepare, SetArgAddress, Execute, GetState, Suspend, Release.            *)
(*                                                                         *)
(* A handle object lives at an address; its state_ member lives at the     *)
(* same address, so "the address of state_" is the address of the handle.  *)
(* UpdateCat's Vec2 position is abstracted to one integer.                 *)
(***************************************************************************)
EXTENDS Integers, Sequences, FiniteSets, TLC

\* ---- bounds of the model ----
NumAddr == 2
MaxCtx == 2
HeapSize == 2
MaxCoros == 3
MaxSpawn == 2
MaxAge == 3

\* ---- program constants ----
NULL == 0
ReapLimit == 100

Addr == 1..NumAddr
Ctx == 1..MaxCtx
Heap == 1..HeapSize
Temp == HeapSize + 1
Coros == 1..MaxCoros

InitStates == {0, 5}
RandVals == {30, 200}
HostVals == {9}
UB == {"crash", "go"}

\* ---- the script module (coro.as) ----
Ins(op, v) == [op |-> op, v |-> v]

ScenarioA == << Ins("set", 1), Ins("yield", 0), Ins("set", 2) >>
Inc50 == << Ins("add", 50), Ins("yield", 0), Ins("jmp", 1) >>
Faulty == << Ins("set", 1), Ins("fault", 0) >>
CatStateTest == << Ins("yield", 0), Ins("rnd", 0), Ins("yield", 0) >>
UpdateCat == << Ins("rnd", 0), Ins("yield", 0), Ins("br", 1) >>
ReadBack == << Ins("yield", 0), Ins("add", 1) >>

Functions == {"ScenarioA", "Faulty", "UpdateCat"}
HostFunctions == {"ReadBack"}
MainFunctions == {"Inc50", "Faulty", "UpdateCat"}
\* the names a host asks for: the functions of the module and one it lacks
Requested(mod) == mod \cup {"Missing"}
MainDecls == MainFunctions \cup {"Missing"}

Prog(f) ==
  CASE f = "ScenarioA" -> ScenarioA
    [] f = "Inc50" -> Inc50
    [] f = "Faulty" -> Faulty
    [] f = "CatStateTest" -> CatStateTest
    [] f = "UpdateCat" -> UpdateCat
    [] f = "ReadBack" -> ReadBack
    [] OTHER -> << >>

Oracle == [val : RandVals, more : BOOLEAN]

VARIABLES obj, ctxs, module, pool, crashed, last

vars == << obj, ctxs, module, pool, crashed, last >>

NoObj == [live |-> FALSE, ctx_ |-> NULL, state_ |-> 0]
NoCtx == [state |-> "UNINITIALIZED", func |-> "", pc |-> 0, arg |-> NULL, rel |-> 0]

Freed == [state |-> "UNINITIALIZED", func |-> "freed", pc |-> 0, arg |-> NULL, rel |-> 0]

Call(fn, c) == [fn |-> fn, c |-> c]

\* the part of the program state the class and the engine act on
World == [obj |-> obj, ctxs |-> ctxs, crashed |-> crashed, calls |-> << >>]

Created(w, c) == w.ctxs[c].func # ""
FreeCtx(w) == {c \in DOMAIN w.ctxs : ~Created(w, c)}
FreeAddr(w) == {a \in DOMAIN w.obj : ~w.obj[a].live}
Min(S) == CHOOSE x \in S : \A y \in S : x <= y

\* the element of a one-element set: Only({F(x) : x \in {e}}) is F(e) with e
\* computed once, as a statement sequence "x = e; F(x)" computes it
Only(S) == CHOOSE x \in S : TRUE

\* ---- Binding::Yield and the script interpreter ----
\* Yield() suspends the active context if there is one
YieldSuspends(active) == active # NULL

RECURSIVE Run(_, _, _, _, _, _)
Run(prog, pc, x, r, active, acc) ==
  IF pc > Len(prog)
  THEN [st |-> "FINISHED", pc |-> pc, x |-> x, yld |-> acc.yld, writes |-> acc.writes]
  ELSE LET i == prog[pc] IN
    CASE i.op = "set" ->
           Run(prog, pc + 1, i.v, r, active, [acc EXCEPT !.writes = Append(@, i.v)])
      [] i.op = "add" ->
           Run(prog, pc + 1, x + i.v, r, active, [acc EXCEPT !.writes = Append(@, x + i.v)])
      [] i.op = "rnd" ->
           Run(prog, pc + 1, r.val, r, active, [acc EXCEPT !.writes = Append(@, r.val)])
      [] i.op = "jmp" -> Run(prog, i.v, x, r, active, acc)
      [] i.op = "br" -> Run(prog, IF r.more THEN i.v ELSE pc + 1, x, r, active, acc)
      [] i.op = "fault" ->
           [st |-> "EXCEPTION", pc |-> pc, x |-> x, yld |-> acc.yld, writes |-> acc.writes]
      [] i.op = "yield" ->
           IF YieldSuspends(active)
           THEN [st |-> "SUSPENDED", pc |-> pc + 1, x |-> x, yld |-> TRUE, writes |-> acc.writes]
           ELSE Run(prog, pc + 1, x, r, active, acc)

\* ---- the engine ----
Log(w, fn, c) == [w EXCEPT !.calls = Append(@, Call(fn, c))]

GetState(w, c) == w.ctxs[c].state

\* asIScriptContext::SetArgAddress: a call through a null pointer is undefined;
\* on a context that is not PREPARED the engine rejects the call
SetArgAddress(w, c, a, ub) ==
  IF c = NULL
  THEN [Log(w, "SetArgAddress", c) EXCEPT !.crashed = (ub = "crash")]
  ELSE IF GetState(w, c) = "PREPARED"
       THEN [Log(w, "SetArgAddress", c) EXCEPT !.ctxs[c].arg = a]
       ELSE Log(w, "SetArgAddress", c)

\* asIScriptContext::Release: the handle's reference is the only one, so the
\* engine frees the context; what is left of it is that it was released
Release(w, c) ==
  [Log(w, "Release", c) EXCEPT !.ctxs[c] = [Freed EXCEPT !.rel = w.ctxs[c].rel + 1]]

\* asGetActiveContext(): the context that is executing, if there is one
asGetActiveContext(w) ==
  IF \E c \in DOMAIN w.ctxs : w.ctxs[c].state = "ACTIVE"
  THEN Min({c \in DOMAIN w.ctxs : w.ctxs[c].state = "ACTIVE"})
  ELSE NULL

\* asIScriptContext::Suspend
Suspend(w, c) == [Log(w, "Suspend", c) EXCEPT !.ctxs[c].state = "SUSPENDED"]

\* seeded defect: Yield() calls Suspend() without testing the pointer
YieldUnchecked(w) ==
  IF asGetActiveContext(w) # NULL THEN Suspend(w, asGetActiveContext(w))
  ELSE [Log(w, "Suspend", NULL) EXCEPT !.crashed = TRUE]

\* Binding::Yield called by the host, outside Execute
Yield(w) ==
  IF YieldSuspends(asGetActiveContext(w)) THEN Suspend(w, asGetActiveContext(w))
  ELSE w

\* the value the script finds behind its argument 0
ArgValue(w, c) ==
  IF w.ctxs[c].arg # NULL /\ w.obj[w.ctxs[c].arg].live
  THEN w.obj[w.ctxs[c].arg].state_ ELSE 0

\* what an Execute of the context does: the segment of the script that runs
Segment(w, c, r) ==
  Run(Prog(w.ctxs[c].func), w.ctxs[c].pc, ArgValue(w, c),
      r, c, [yld |-> FALSE, writes |-> << >>])

\* the context takes the state and program counter the segment ended with
Ended(w, c, res) == [w EXCEPT !.ctxs[c].state = res.st, !.ctxs[c].pc = res.pc]

\* seeded defect: the state is one object shared by all handles
StoreShared(w, c, tgt, res, ub) ==
  IF res.writes = << >> THEN Ended(w, c, res)
  ELSE [Ended(w, c, res) EXCEPT
          !.obj = [a \in DOMAIN w.obj |->
                     IF w.obj[a].live THEN [w.obj[a] EXCEPT !.state_ = res.x]
                     ELSE w.obj[a]]]

\* the writes of the segment go to the memory argument 0 refers to; a write to
\* memory no object owns is undefined
Store(w, c, tgt, res, ub) ==
  IF res.writes = << >> THEN Ended(w, c, res)
  ELSE IF tgt # NULL /\ w.obj[tgt].live
       THEN [Ended(w, c, res) EXCEPT !.obj[tgt].state_ = res.x]
       ELSE IF ub = "crash"
            THEN [w EXCEPT !.ctxs[c].state = "ACTIVE", !.crashed = TRUE]
            ELSE Ended(w, c, res)

\* seeded defect: the engine suspends a script that has run to its end (a time
\* slice), without a Yield()
ExecuteTimeSliced(w, c, r, ub) ==
  IF w.ctxs[c].state \notin {"PREPARED", "SUSPENDED"} THEN Log(w, "Execute", c)
  ELSE Store(Log(w, "Execute", c), c, w.ctxs[c].arg, [Segment(w, c, r) EXCEPT !.st = IF @ = "FINISHED" THEN "SUSPENDED" ELSE @], ub)

\* seeded defect: a script fault leaves Execute as a C++ exception nobody catches
ExecuteFaultPropagates(w, c, r, ub) ==
  IF w.ctxs[c].state \notin {"PREPARED", "SUSPENDED"} THEN Log(w, "Execute", c)
  ELSE [Store(Log(w, "Execute", c), c, w.ctxs[c].arg, Segment(w, c, r), ub)
          EXCEPT !.crashed = @ \/ Segment(w, c, r).st = "EXCEPTION"]

\* asIScriptContext::Execute: runs the script from its program counter on the
\* memory its argument 0 refers to; a context that is neither PREPARED nor
\* SUSPENDED is rejected
Execute(w, c, r, ub) ==
  IF w.ctxs[c].state \notin {"PREPARED", "SUSPENDED"} THEN Log(w, "Execute", c)
  ELSE Store(Log(w, "Execute", c), c, w.ctxs[c].arg, Segment(w, c, r), ub)

\* ---- CustomScript ----
Prepared(w, coctx, decl) ==
  [Log(Log(w, "CreateContext", coctx), "Prepare", coctx) EXCEPT !.ctxs[coctx] =
     [state |-> "PREPARED", func |-> decl, pc |-> 1, arg |-> NULL, rel |-> 0]]

getCoroutineContext_(w, mod, decl) ==
  IF mod = {} THEN [w |-> w, p |-> NULL]
  ELSE IF decl \notin mod THEN [w |-> w, p |-> NULL]
  ELSE [w |-> Prepared(w, Min(FreeCtx(w)), decl), p |-> Min(FreeCtx(w))]

\* ---- ScriptCoroutine ----
Members(w, a, ctx, initialState) ==
  [w EXCEPT !.obj[a] = [live |-> TRUE, ctx_ |-> ctx, state_ |-> initialState]]

\* seeded defect: state_ is value-initialised instead of copied from initialState
ConstructorDefaultState(w, a, ctx, initialState, ub) ==
  SetArgAddress(Members(w, a, ctx, 0), ctx, a, ub)

Constructor(w, a, ctx, initialState, ub) ==
  SetArgAddress(Members(w, a, ctx, initialState), ctx, a, ub)

Wrap(g, a, initialState, ub) == Constructor(g.w, a, g.p, initialState, ub)

getCoroutine(w, mod, a, decl, initialState, ub) ==
  Wrap(getCoroutineContext_(w, mod, decl), a, initialState, ub)

\* seeded defect: the move constructor leaves sc.ctx_ as it was
MoveConstructorKeepsSource(w, a, sc, ub) ==
  Constructor(w, a, w.obj[sc].ctx_, w.obj[sc].state_, ub)

NullCtx(w, sc) == IF w.crashed THEN w ELSE [w EXCEPT !.obj[sc].ctx_ = NULL]

MoveConstructor(w, a, sc, ub) ==
  NullCtx(Constructor(w, a, w.obj[sc].ctx_, w.obj[sc].state_, ub), sc)

Destroyed(w, a) == [w EXCEPT !.obj[a] = NoObj]

Destructor(w, a) ==
  Destroyed(IF w.obj[a].ctx_ # NULL THEN Release(w, w.obj[a].ctx_) ELSE w, a)

\* operator=(ScriptCoroutine&&): three assignments, then the function ends
\* without a return statement, which is undefined
AssignCtx(w, a, sc) == [w EXCEPT !.obj[a].ctx_ = w.obj[sc].ctx_]
AssignState(w, a, sc) == [w EXCEPT !.obj[a].state_ = w.obj[sc].state_]
EndWithoutReturn(w, ub) == [w EXCEPT !.crashed = (ub = "crash")]

MoveAssign(w, a, sc, ub) ==
  EndWithoutReturn(AssignState(NullCtx(AssignCtx(w, a, sc), sc), a, sc), ub)

\* seeded defect: only FINISHED counts as not runnable
runnableUnlessFinished(w, a) ==
  IF w.obj[a].ctx_ = NULL THEN FALSE
  ELSE GetState(w, w.obj[a].ctx_) # "FINISHED"

runnable(w, a) ==
  IF w.obj[a].ctx_ = NULL THEN FALSE
  ELSE LET state == GetState(w, w.obj[a].ctx_)
       IN state = "PREPARED" \/ state = "SUSPENDED"

\* seeded defect: operator() executes without asking runnable()
CallOperatorUnchecked(w, a, r, ub) ==
  IF w.obj[a].ctx_ # NULL THEN Execute(w, w.obj[a].ctx_, r, ub) ELSE w

\* operator()
CallOperator(w, a, r, ub) ==
  IF runnable(w, a) THEN Execute(Log(w, "GetState", w.obj[a].ctx_), w.obj[a].ctx_, r, ub)
  ELSE IF w.obj[a].ctx_ # NULL THEN Log(w, "GetState", w.obj[a].ctx_)
  ELSE w

\* ---- lifecycle of the spec, read off the engine's context state ----
Lifecycle(w, a) ==
  LET c == w.obj[a].ctx_ IN
  IF c = NULL THEN "unbound"
  ELSE CASE w.ctxs[c].rel > 0 -> "released"
         [] w.ctxs[c].state = "PREPARED" -> "prepared"
         [] w.ctxs[c].state = "SUSPENDED" -> "suspended"
         [] w.ctxs[c].state \in {"FINISHED", "EXCEPTION"} -> "finished"
         [] w.ctxs[c].state = "ACTIVE" -> "active"
         [] OTHER -> "unbound"

\* ---- history record of the last operation ----
Snap(w, a) == [life |-> Lifecycle(w, a), x |-> w.obj[a].state_, ctx |-> w.obj[a].ctx_]
NoSnap == [life |-> "none", x |-> 0, ctx |-> NULL]

\* per pool slot holding a Scenario C coroutine (script Inc50): the script and
\* seed it was spawned with and the number of ticks since its spawn tick
\* (counted up to MaxAge)
NoHist == [age |-> 0, decl |-> "", init |-> 0]

NoLast ==
  [op |-> "init", h |-> NULL, sc |-> NULL, decl |-> "", init |-> 0, calls |-> << >>,
   yld |-> FALSE, writes |-> << >>, pre |-> NoSnap,
   spawned |-> << >>, stepped |-> << >>, reaped |-> << >>, due |-> {}, faulted |-> {},
   was |-> << >>, v |-> 0, read |-> 0,
   before |-> << >>, start |-> << >>, trail |-> << >>, xs |-> << >>, lifes |-> << >>, hist |-> [a \in Heap |-> NoHist]]

Commit(w, l) ==
  /\ obj' = w.obj
  /\ ctxs' = w.ctxs
  /\ crashed' = w.crashed
  /\ last' = [l EXCEPT !.calls = w.calls]

Init ==
  /\ obj = [a \in Addr |-> NoObj]
  /\ ctxs = [c \in Ctx |-> NoCtx]
  /\ module \in {{}, Functions}
  /\ pool = << >>
  /\ crashed = FALSE
  /\ last = NoLast

\* what the script does in the Execute that operator() makes, if it makes one
StepSegment(w, a, r) ==
  IF runnable(w, a) THEN Segment(w, w.obj[a].ctx_, r)
  ELSE [yld |-> FALSE, writes |-> << >>]

\* ---- the operations of ScriptCoroutine and CustomScript, called by a host ----
\* auto coro = script.getCoroutine<State>(decl, initialState);
GetCoroutine ==
  \E a \in FreeAddr(World), decl \in Requested(module), i \in InitStates, ub \in UB :
    /\ ~crashed
    /\ (module # {} /\ decl \in module) => FreeCtx(World) # {}
    /\ Commit(getCoroutine(World, module, a, decl, i, ub),
              [NoLast EXCEPT !.op = "getCoroutine", !.h = a, !.decl = decl, !.init = i])
    /\ UNCHANGED << module, pool >>

\* Coro b{ std::move(a) };
MoveConstruct ==
  \E a \in FreeAddr(World), sc \in Addr, ub \in UB :
    /\ ~crashed
    /\ obj[sc].live
    /\ Commit(MoveConstructor(World, a, sc, ub),
              [NoLast EXCEPT !.op = "moveConstruct", !.h = a, !.sc = sc,
                             !.pre = Snap(World, sc)])
    /\ UNCHANGED << module, pool >>

\* a = std::move(b);
MoveAssignment ==
  \E a \in Addr, sc \in Addr, ub \in UB :
    /\ ~crashed
    /\ obj[a].live /\ obj[sc].live
    /\ Commit(MoveAssign(World, a, sc, ub),
              [NoLast EXCEPT !.op = "moveAssign", !.h = a, !.sc = sc,
                             !.pre = Snap(World, sc)])
    /\ UNCHANGED << module, pool >>

Destroy ==
  \E a \in Addr :
    /\ ~crashed
    /\ obj[a].live
    /\ Commit(Destructor(World, a),
              [NoLast EXCEPT !.op = "destroy", !.h = a, !.pre = Snap(World, a)])
    /\ UNCHANGED << module, pool >>

\* coro();
Step ==
  \E a \in Addr, r \in Oracle, ub \in UB :
    /\ ~crashed
    /\ obj[a].live
    /\ Commit(CallOperator(World, a, r, ub),
              [NoLast EXCEPT !.op = "step", !.h = a, !.pre = Snap(World, a),
                             !.yld = StepSegment(World, a, r).yld,
                             !.read = IF runnable(World, a)
                                      THEN ArgValue(World, obj[a].ctx_) ELSE 0,
                             !.writes = StepSegment(World, a, r).writes])
    /\ UNCHANGED << module, pool >>

\* coro.getState() = v;
SetState(w, a, v) == [w EXCEPT !.obj[a].state_ = v]

HostWrite ==
  \E a \in Addr, v \in HostVals :
    /\ ~crashed
    /\ obj[a].live
    /\ Commit(SetState(World, a, v),
              [NoLast EXCEPT !.op = "write", !.h = a, !.v = v, !.pre = Snap(World, a)])
    /\ UNCHANGED << module, pool >>

\* Scripting::Binding::Yield(); called from host code
HostYield ==
  /\ ~crashed
  /\ Commit(Yield(World), [NoLast EXCEPT !.op = "yield", !.was = World])
  /\ UNCHANGED << module, pool >>

Next ==
  \/ GetCoroutine
  \/ MoveConstruct
  \/ MoveAssignment
  \/ Destroy
  \/ Step
  \/ HostYield

Spec == Init /\ [][Next]_vars

\* ---- a host that also writes through getState() between its calls ----
InitHost ==
  /\ obj = [a \in Addr |-> NoObj]
  /\ ctxs = [c \in Ctx |-> NoCtx]
  /\ module = HostFunctions
  /\ pool = << >>
  /\ crashed = FALSE
  /\ last = NoLast

NextHost ==
  \/ Next
  \/ HostWrite

SpecHost == InitHost /\ [][NextHost]_vars

\* ---- Main: the tick loop over coroList ----
\* coroList.emplace_back(std::make_shared<Coro>(script.getCoroutine<CatState>(decl, init)));
\* the temporary getCoroutine returns is moved into the heap object and destroyed
MoveToHeap(w, h, ub) == IF w.crashed THEN w ELSE MoveConstructor(w, h, Temp, ub)
DropTemporary(w) == IF w.crashed THEN w ELSE Destructor(w, Temp)
EmplaceBack(w, pl, h) == [w |-> w, pool |-> IF w.crashed THEN pl ELSE Append(pl, h)]

SpawnOne(w, mod, pl, decl, i, ub) ==
  Only({ EmplaceBack(w3, pl, Min(FreeAddr(w) \ {Temp})) :
         w3 \in { DropTemporary(w2) :
                  w2 \in { MoveToHeap(w1, Min(FreeAddr(w) \ {Temp}), ub) :
                           w1 \in { getCoroutine(w, mod, Temp, decl, i, ub) } } } })

RECURSIVE SpawnAll(_, _, _, _, _, _, _)
SpawnRest(s, mod, ds, is, k, ub) == SpawnAll(s.w, mod, s.pool, ds, is, k, ub)

SpawnAll(w, mod, pl, ds, is, k, ub) ==
  IF k > Len(ds) \/ w.crashed THEN [w |-> w, pool |-> pl]
  ELSE Only({ SpawnRest(s, mod, ds, is, k + 1, ub) :
              s \in { SpawnOne(w, mod, pl, ds[k], is[k], ub) } })

\* what the draw calls after (*coro)() can see: each handle's state, context and
\* lifecycle, every context's state, the executing context, the Execute calls so far
Shot(w) ==
  [xs |-> [a \in DOMAIN w.obj |-> w.obj[a].state_],
   cx |-> [a \in DOMAIN w.obj |-> w.obj[a].ctx_],
   lifes |-> [a \in DOMAIN w.obj |-> Lifecycle(w, a)],
   states |-> [c \in DOMAIN w.ctxs |-> w.ctxs[c].state],
   active |-> asGetActiveContext(w),
   execs |-> SelectSeq(w.calls, LAMBDA e : e.fn = "Execute")]

Seen(r, w) == [r EXCEPT !.trail = << Shot(w) >> \o @]

\* for (auto& coro : coroList) { (*coro)(); ... draw ... }
RECURSIVE StepAll(_, _, _, _, _)
StepAll(w, pl, rs, k, ub) ==
  IF k > Len(pl) \/ w.crashed
  THEN [w |-> w, stepped |-> SubSeq(pl, 1, k - 1), trail |-> << >>]
  ELSE Only({ Seen(StepAll(w1, pl, rs, k + 1, ub), w1) :
              w1 \in { CallOperator(w, pl[k], rs[k], ub) } })

\* seeded defect: the border of the stretched rectangle counts as outside
ShouldReapInclusive(w, a) == w.obj[a].state_ >= ReapLimit

\* the predicate of remove_if: the cat left the scene rectangle stretched by ReapLimit
ShouldReap(w, a) == w.obj[a].state_ > ReapLimit

RECURSIVE DestroyAll(_, _, _)
DestroyAll(w, as, k) ==
  IF k > Len(as) THEN w
  ELSE Only({ DestroyAll(w1, as, k + 1) : w1 \in { Destructor(w, as[k]) } })

RemoveIf(w, pl) ==
  [w |-> DestroyAll(w, SelectSeq(pl, LAMBDA a : ShouldReap(w, a)), 1),
   pool |-> SelectSeq(pl, LAMBDA a : ~ShouldReap(w, a)),
   reaped |-> SelectSeq(pl, LAMBDA a : ShouldReap(w, a))]

\* seeded defect: the step loop starts at the second handle of coroList
StepPassFromSecond(s, rs, ub) ==
  IF s.w.crashed \/ s.pool = << >> THEN [w |-> s.w, stepped |-> << >>, trail |-> << >>]
  ELSE StepAll(s.w, s.pool, rs, 2, ub)

\* one iteration of while (System::Update()): spawn, step pass, remove_if
StepPass(s, rs, ub) ==
  IF s.w.crashed THEN [w |-> s.w, stepped |-> << >>, trail |-> << >>]
  ELSE StepAll(s.w, s.pool, rs, 1, ub)

\* seeded defect: remove_if looks at the states the handles had before the step loop
ReapOnStaleState(s, t) ==
  IF t.w.crashed THEN [w |-> t.w, pool |-> s.pool, reaped |-> << >>]
  ELSE [w |-> DestroyAll(t.w, SelectSeq(s.pool, LAMBDA a : ShouldReap(s.w, a)), 1),
        pool |-> SelectSeq(s.pool, LAMBDA a : ~ShouldReap(s.w, a)),
        reaped |-> SelectSeq(s.pool, LAMBDA a : ShouldReap(s.w, a))]

Reap(s, t) ==
  IF t.w.crashed THEN [w |-> t.w, pool |-> s.pool, reaped |-> << >>]
  ELSE RemoveIf(t.w, s.pool)

TickRecord(pl, s, t, u) ==
  [w |-> u.w, pool |-> u.pool, spawned |-> SubSeq(s.pool, Len(pl) + 1, Len(s.pool)),
   stepped |-> t.stepped, reaped |-> u.reaped,
   due |-> {s.w.obj[s.pool[k]].ctx_ : k \in {j \in 1..Len(s.pool) : runnable(s.w, s.pool[j])}},
   faulted |-> {c \in DOMAIN s.w.ctxs :
                  s.w.ctxs[c].state # "EXCEPTION" /\ t.w.ctxs[c].state = "EXCEPTION"},
   before |-> pl, start |-> Shot(s.w), trail |-> t.trail,
   xs |-> [a \in DOMAIN t.w.obj |-> t.w.obj[a].state_],
   lifes |-> [a \in DOMAIN t.w.obj |-> Lifecycle(t.w, a)]]

AfterStepPass(pl, s, t) == Only({ TickRecord(pl, s, t, u) : u \in { Reap(s, t) } })

\* seeded defect: the step loop runs over the handles that were in coroList
\* before the spawn block
AfterSpawnStepsOld(pl, s, rs, ub) ==
  Only({ AfterStepPass(pl, s, t) : t \in { StepPass([w |-> s.w, pool |-> pl], rs, ub) } })

AfterSpawn(pl, s, rs, ub) ==
  Only({ AfterStepPass(pl, s, t) : t \in { StepPass(s, rs, ub) } })

TickBody(w, mod, pl, ds, is, rs, ub) ==
  Only({ AfterSpawn(pl, s, rs, ub) : s \in { SpawnAll(w, mod, pl, ds, is, 1, ub) } })

\* the history of the slots after a tick
Aged(t, ds, is) ==
  [a \in Heap |->
     IF \E k \in 1..Len(t.spawned) : t.spawned[k] = a /\ ds[k] = "Inc50"
     THEN [age |-> 0,
           decl |-> ds[CHOOSE k \in 1..Len(t.spawned) : t.spawned[k] = a],
           init |-> is[CHOOSE k \in 1..Len(t.spawned) : t.spawned[k] = a]]
     ELSE IF (\E k \in 1..Len(t.before) : t.before[k] = a) /\ last.hist[a] # NoHist
          THEN [last.hist[a] EXCEPT !.age = IF @ < MaxAge THEN @ + 1 ELSE @]
          ELSE NoHist]

CommitTick(t, ds, is) ==
  /\ Commit(t.w, [NoLast EXCEPT !.op = "tick", !.spawned = t.spawned,
                                !.stepped = t.stepped, !.reaped = t.reaped,
                                !.due = t.due, !.faulted = t.faulted,
                                !.before = t.before, !.start = t.start,
                                !.trail = t.trail, !.xs = t.xs, !.lifes = t.lifes,
                                !.hist = Aged(t, ds, is)])
  /\ pool' = t.pool

\* the random draws of a tick: one per handle whose script draws (UpdateCat)
DefaultOracle == [val |-> 30, more |-> FALSE]

RECURSIVE OracleSeqs(_)
OracleSeqs(need) ==
  IF need = << >> THEN { << >> }
  ELSE { << o >> \o t : o \in (IF Head(need) THEN Oracle ELSE {DefaultOracle}),
                        t \in OracleSeqs(Tail(need)) }

Draws(f) == f = "UpdateCat"

Tick ==
  \E n \in 0..MaxSpawn :
    /\ ~crashed
    /\ n <= Cardinality(FreeAddr(World) \ {Temp})
    /\ n <= Cardinality(FreeCtx(World))
    /\ \E ds \in [1..n -> MainDecls], is \in [1..n -> InitStates] :
         LET need == [k \in 1..(Len(pool) + n) |->
                        IF k <= Len(pool)
                        THEN obj[pool[k]].ctx_ # NULL /\ Draws(ctxs[obj[pool[k]].ctx_].func)
                        ELSE Draws(ds[k - Len(pool)])]
             undefined == \E k \in 1..n : module = {} \/ ds[k] \notin module
         IN \E rs \in OracleSeqs(need), ub \in (IF undefined THEN UB ELSE {"go"}) :
              \E t \in { TickBody(World, module, pool, ds, is, rs, ub) } :
                CommitTick(t, ds, is)
    /\ UNCHANGED module

InitMain ==
  /\ obj = [a \in Heap \cup {Temp} |-> NoObj]
  /\ ctxs = [c \in Coros |-> NoCtx]
  /\ module \in {{}, MainFunctions}
  /\ pool = << >>
  /\ crashed = FALSE
  /\ last = NoLast

NextMain == Tick

SpecMain == InitMain /\ [][NextMain]_vars

\* while (System::Update()) keeps iterating: a tick that can change the state is
\* eventually taken
SpecMainFair == SpecMain /\ WF_vars(Tick)

\* ---- properties ----
HasCall(fn) == \E k \in 1..Len(last.calls) : last.calls[k].fn = fn
CallCount(fn, c) == Cardinality({k \in 1..Len(last.calls) : last.calls[k] = Call(fn, c)})
Live == {a \in DOMAIN obj : obj[a].live}
Holders(c) == {a \in Live : obj[a].ctx_ = c}
FailedResolution == module = {} \/ last.decl \notin module

\* C1: a Step() on a handle whose context is finished (returned or faulted) makes
\* no Execute call, leaves the lifecycle finished and leaves state_ unchanged
C1_FinishedIsAbsorbing ==
  (last.op = "step" /\ last.pre.life = "finished") =>
    /\ ~HasCall("Execute")
    /\ Lifecycle(World, last.h) = "finished"
    /\ obj[last.h].state_ = last.pre.x
    /\ ~crashed

C1_Witness == last.op = "step" /\ last.pre.life = "finished"

\* C2: runnable() is true exactly for a handle with a context whose lifecycle is
\* prepared or suspended, false without a context and for a finished or faulted
\* context; operator() executes the context exactly when runnable() is true
C2_RunnableIffPreparedOrSuspended ==
  /\ \A a \in Live :
       /\ runnable(World, a) <=>
            (obj[a].ctx_ # NULL /\ Lifecycle(World, a) \in {"prepared", "suspended"})
       /\ obj[a].ctx_ = NULL => ~runnable(World, a)
       /\ (obj[a].ctx_ # NULL /\ ctxs[obj[a].ctx_].state \in {"FINISHED", "EXCEPTION"})
            => ~runnable(World, a)
  /\ last.op = "step" =>
       (HasCall("Execute") <=> last.pre.life \in {"prepared", "suspended"})

C2_Witness ==
  /\ ~crashed
  /\ \E a \in Live : obj[a].ctx_ = NULL
  /\ \E b \in Live : obj[b].ctx_ # NULL /\ ctxs[obj[b].ctx_].state = "EXCEPTION"

\* C3: a failed resolution (empty module or unknown name) does not fault: it gives
\* a handle without context, makes no call on a context, runnable() is false and
\* a Step() on such a handle does nothing
C3_FailedResolutionNeverFaults ==
  /\ (last.op = "getCoroutine" /\ FailedResolution) =>
       /\ ~crashed
       /\ obj[last.h].ctx_ = NULL
       /\ last.calls = << >>
       /\ ~runnable(World, last.h)
  /\ (last.op = "step" /\ last.pre.ctx = NULL) =>
       /\ last.calls = << >>
       /\ obj[last.h].state_ = last.pre.x

\* C4: every context created is released exactly once: never twice, never held by
\* a handle after its release, released once no handle holds it; destroying a
\* handle without context makes no engine call
C4_ReleasedExactlyOnce ==
  /\ \A c \in DOMAIN ctxs : Created(World, c) =>
       /\ ctxs[c].rel <= 1
       /\ ctxs[c].rel = 1 => Holders(c) = {}
       /\ Holders(c) = {} => ctxs[c].rel = 1
  /\ (last.op = "destroy" /\ last.pre.ctx = NULL) => last.calls = << >>

C6_ArgBoundToOwnState ==
  \A a \in Live : obj[a].ctx_ # NULL => ctxs[obj[a].ctx_].arg = a

\* C7: a Step() that returns moves the lifecycle only prepared -> suspended,
\* prepared -> finished, suspended -> suspended or suspended -> finished (and
\* leaves finished and unbound as they are); it ends suspended only if the
\* script called Yield() in that Step()
C7_StepTransitions ==
  (last.op = "step" /\ ~crashed) =>
    /\ << last.pre.life, Lifecycle(World, last.h) >> \in
         { << "prepared", "suspended" >>, << "prepared", "finished" >>,
           << "suspended", "suspended" >>, << "suspended", "finished" >>,
           << "finished", "finished" >>, << "unbound", "unbound" >> }
    /\ (HasCall("Execute") /\ Lifecycle(World, last.h) = "suspended") => last.yld

C7_Witness ==
  /\ last.op = "step"
  /\ ~crashed
  /\ last.pre.life = "suspended"
  /\ Lifecycle(World, last.h) = "suspended"
  /\ last.yld

\* C8: when a Step() that executed the script returns, state_ of the handle holds
\* the last write of the segment that ran (or its old value if there was none);
\* for ScenarioA the first Step() ends suspended with 1, the second finished with 2
C8_StepVisibility ==
  (last.op = "step" /\ HasCall("Execute") /\ ~crashed) =>
    /\ obj[last.h].state_ =
         IF last.writes # << >> THEN last.writes[Len(last.writes)] ELSE last.pre.x
    /\ ctxs[obj[last.h].ctx_].func = "ScenarioA" =>
         /\ last.pre.life = "prepared" =>
              (Lifecycle(World, last.h) = "suspended" /\ obj[last.h].state_ = 1)
         /\ last.pre.life = "suspended" =>
              (Lifecycle(World, last.h) = "finished" /\ obj[last.h].state_ = 2)

\* C9: a successful getCoroutine(decl, initialState) executes nothing: the context
\* is prepared at the function start, runnable() is true and state_ is
\* initialState; moving the prepared handle (into the pool) keeps all of that
C9_CreationRunsNothing ==
  /\ (last.op = "getCoroutine" /\ ~FailedResolution) =>
       /\ ~crashed
       /\ obj[last.h].ctx_ # NULL
       /\ Lifecycle(World, last.h) = "prepared"
       /\ ctxs[obj[last.h].ctx_].pc = 1
       /\ runnable(World, last.h)
       /\ obj[last.h].state_ = last.init
       /\ ~HasCall("Execute")
  /\ (last.op = "moveConstruct" /\ last.pre.life = "prepared") =>
       /\ ~crashed
       /\ obj[last.h].ctx_ = last.pre.ctx
       /\ Lifecycle(World, last.h) = "prepared"
       /\ ctxs[obj[last.h].ctx_].pc = 1
       /\ runnable(World, last.h)
       /\ obj[last.h].state_ = last.pre.x
       /\ ~HasCall("Execute")

C9_Witness ==
  /\ last.op = "moveConstruct"
  /\ last.pre.life = "prepared"
  /\ obj[last.h].state_ = 5

\* C10: a script fault in a Step() does not leave the Step(): the tick goes on,
\* every context that was runnable when the step pass began is executed exactly
\* once in the tick, the faulted context is finished and not runnable, and no
\* later tick executes it again
PositionOf(c) == {k \in 1..Len(last.stepped) : obj[last.stepped[k]].ctx_ = c}

C10_FaultContainment ==
  last.op = "tick" =>
    /\ last.faulted # {} => ~crashed
    /\ ~crashed =>
         /\ \A c \in last.due : CallCount("Execute", c) = 1
         /\ \A c \in DOMAIN ctxs : c \notin last.due => CallCount("Execute", c) = 0
         /\ Len(last.stepped) = Len(pool) + Len(last.reaped)
         /\ \A k \in 1..Len(pool) : \E j \in 1..Len(last.stepped) : last.stepped[j] = pool[k]
    /\ \A c \in last.faulted : c \in last.due
    /\ \A k \in 1..Len(pool) :
         LET a == pool[k] IN
         (obj[a].ctx_ # NULL /\ ctxs[obj[a].ctx_].state = "EXCEPTION") =>
           /\ Lifecycle(World, a) = "finished"
           /\ ~runnable(World, a)
           /\ obj[a].ctx_ \notin last.faulted => CallCount("Execute", obj[a].ctx_) = 0

\* a context faulted in this tick and a context stepped after it was executed
C10_Witness ==
  /\ last.op = "tick"
  /\ ~crashed
  /\ \E c \in last.faulted, d \in last.due \ last.faulted :
       /\ PositionOf(c) # {} /\ PositionOf(d) # {}
       /\ \A i \in PositionOf(c), j \in PositionOf(d) : i < j
       /\ CallCount("Execute", d) = 1

\* C11: Yield() called while no context is executing does not fault and changes
\* nothing: it makes no engine call, every context keeps its state and position
\* and every handle keeps its context and its state_
C11_YieldOutsideContext ==
  last.op = "yield" =>
    /\ ~crashed
    /\ last.calls = << >>
    /\ ctxs = last.was.ctxs
    /\ obj = last.was.obj

C11_Witness ==
  /\ last.op = "yield"
  /\ \E a \in Live : Lifecycle(World, a) = "suspended"
  /\ \E b \in Live : Lifecycle(World, b) = "prepared"

\* C12: the value the host left in state_ through getState() before a Step() is
\* the value the script finds behind its state argument when that Step() runs
\* it; ReadBack, resumed, leaves that value plus one in state_
C12_HostWritesVisible ==
  (last.op = "step" /\ HasCall("Execute")) =>
    /\ last.read = last.pre.x
    /\ (~crashed /\ last.pre.life = "suspended" /\ ctxs[last.pre.ctx].func = "ReadBack")
         => obj[last.h].state_ = last.pre.x + 1

\* positions in the tick's call log
CallsAt(fn) == {k \in 1..Len(last.calls) : last.calls[k].fn = fn}
TimesStepped(a) == Cardinality({k \in 1..Len(last.stepped) : last.stepped[k] = a})
InSeq(a, q) == \E k \in 1..Len(q) : q[k] = a

\* C14 as claimed: no handle spawned in a tick is stepped in that tick
C14_SpawnedNotSteppedInSpawnTick ==
  (last.op = "tick" /\ ~crashed) =>
    \A k \in 1..Len(last.spawned) : TimesStepped(last.spawned[k]) = 0

\* C14 amended: every handle spawned in a tick receives its first Step() in that
\* same tick, exactly once, after all spawns of the tick are done, so at the end
\* of its spawn tick no handle is still prepared
C14_SpawnedSteppedInSpawnTick ==
  (last.op = "tick" /\ ~crashed) =>
    /\ \A k \in 1..Len(last.spawned) :
         /\ TimesStepped(last.spawned[k]) = 1
         /\ last.lifes[last.spawned[k]] \in {"suspended", "finished", "unbound"}
    /\ \A i \in CallsAt("CreateContext"), j \in CallsAt("Execute") : i < j
    /\ Cardinality(CallsAt("CreateContext")) <= Len(last.spawned)

C14_Witness ==
  /\ last.op = "tick"
  /\ ~crashed
  /\ last.before # << >>
  /\ Len(last.spawned) >= 1
  /\ \E k \in 1..Len(last.spawned) : last.lifes[last.spawned[k]] = "suspended"
  /\ \E k \in 1..Len(last.before) : last.lifes[last.before[k]] = "suspended"

\* the slots of Scenario C: spawned over the script Inc50 with x = 0
ScenarioC == {a \in Heap : last.hist[a].decl = "Inc50" /\ last.hist[a].init = 0}

\* C13 as claimed: a Scenario C coroutine is reaped exactly on the third tick
\* after its spawn tick, with x = 150, and not before
C13_ReapedThirdTickAfterSpawn ==
  (last.op = "tick" /\ ~crashed /\ module # {}) =>
    \A a \in ScenarioC :
      /\ InSeq(a, last.reaped) => (last.hist[a].age = 3 /\ last.xs[a] = 150)
      /\ InSeq(a, pool) => last.hist[a].age < 3

\* C13 amended: a Scenario C coroutine is stepped in its spawn tick (x = 50), in
\* the next tick (x = 100, not reaped) and is reaped exactly on the second tick
\* after its spawn tick, the tick of its third step (x = 150)
C13_ReapedSecondTickAfterSpawn ==
  (last.op = "tick" /\ ~crashed /\ module # {}) =>
    \A a \in ScenarioC :
      /\ InSeq(a, last.reaped) => (last.hist[a].age = 2 /\ last.xs[a] = 150)
      /\ InSeq(a, pool) =>
           /\ last.hist[a].age \in {0, 1}
           /\ obj[a].state_ = 50 * (last.hist[a].age + 1)
           /\ Lifecycle(World, a) = "suspended"
      /\ InSeq(a, last.stepped) => (InSeq(a, pool) \/ InSeq(a, last.reaped))

C13_Witness ==
  /\ last.op = "tick"
  /\ ~crashed
  /\ \E a \in ScenarioC :
       /\ InSeq(a, last.reaped)
       /\ last.hist[a].age = 2
       /\ last.xs[a] = 150
  /\ Len(last.spawned) = 1

\* C15: in every tick each handle that is in the pool when the step pass starts
\* gets exactly one Step(): the handles stepped are the pool before the tick
\* followed by the handles spawned, each once, and each of their contexts is
\* asked for its state exactly once, reaped in this tick or not
C15_OneStepPerTick ==
  (last.op = "tick" /\ ~crashed) =>
    /\ last.stepped = last.before \o last.spawned
    /\ \A k \in 1..Len(last.stepped) : TimesStepped(last.stepped[k]) = 1
    /\ \A k \in 1..Len(pool) :
         obj[pool[k]].ctx_ # NULL => CallCount("GetState", obj[pool[k]].ctx_) = 1
    /\ \A c \in DOMAIN ctxs :
         /\ CallCount("Release", c) = 1 => CallCount("GetState", c) = 1
         /\ CallCount("GetState", c) <= 1
         /\ CallCount("Execute", c) <= 1

C15_Witness ==
  /\ last.op = "tick"
  /\ ~crashed
  /\ Len(last.before) = 2
  /\ last.reaped = << last.before[1] >>
  /\ CallCount("Execute", obj[last.before[2]].ctx_) = 1

\* C16: reaping comes after the whole step pass and is exact: at the end of a tick
\* no handle of the pool satisfies the reap predicate, the pool is the stepped
\* handles whose state after the step pass does not satisfy it, in their old
\* order and with that state, and the reaped ones are exactly the others
C16_ReapExact ==
  (last.op = "tick" /\ ~crashed) =>
    /\ \A k \in 1..Len(pool) : obj[pool[k]].live /\ obj[pool[k]].state_ <= ReapLimit
    /\ pool = SelectSeq(last.stepped, LAMBDA a : last.xs[a] <= ReapLimit)
    /\ last.reaped = SelectSeq(last.stepped, LAMBDA a : last.xs[a] > ReapLimit)
    /\ \A k \in 1..Len(pool) : obj[pool[k]].state_ = last.xs[pool[k]]
    /\ \A k \in 1..Len(last.reaped) : ~obj[last.reaped[k]].live
    /\ \A i \in CallsAt("Release"), j \in CallsAt("Execute") \cup CallsAt("GetState") : j < i

C16_Witness ==
  /\ last.op = "tick"
  /\ ~crashed
  /\ \E k \in 1..Len(last.reaped) : InSeq(last.reaped[k], last.spawned)
  /\ Len(pool) >= 1
  /\ Len(last.stepped) >= 2
  /\ pool[1] # last.stepped[1]

\* C17: every coroutine of the pool that has finished (returned or faulted) is
\* eventually removed from the pool by a later tick
C17_FinishedEventuallyRemoved ==
  \A a \in Heap :
    (~crashed /\ InSeq(a, pool) /\ Lifecycle(World, a) = "finished")
      ~> (crashed \/ ~InSeq(a, pool))

\* the snapshot before the k-th Step() of the tick
Prev(k) == IF k = 1 THEN last.start ELSE last.trail[k - 1]

\* C18: steps never nest or interleave and are isolated: when the k-th Step() of a
\* tick returns no context is executing, the Step() made at most one Execute, on
\* the context of the handle stepped, and every other handle of the pool has the
\* state, context and lifecycle it had before, as has every other context
C18_SingleActiveIsolation ==
  (last.op = "tick" /\ ~crashed) =>
    /\ Len(last.trail) = Len(last.stepped)
    /\ \A k \in 1..Len(last.trail) :
         LET h == last.stepped[k]
             cur == last.trail[k]
         IN /\ cur.active = NULL
            /\ Prev(k).active = NULL
            /\ Len(cur.execs) <= Len(Prev(k).execs) + 1
            /\ Len(cur.execs) = Len(Prev(k).execs) + 1 =>
                 cur.execs[Len(cur.execs)].c = Prev(k).cx[h]
            /\ \A a \in Heap \ {h} :
                 /\ cur.xs[a] = Prev(k).xs[a]
                 /\ cur.cx[a] = Prev(k).cx[a]
                 /\ cur.lifes[a] = Prev(k).lifes[a]
            /\ \A c \in DOMAIN ctxs : c # Prev(k).cx[h] => cur.states[c] = Prev(k).states[c]

\* a tick with two handles, each of which was executed and wrote its own state
C18_Witness ==
  /\ last.op = "tick"
  /\ ~crashed
  /\ Len(last.trail) >= 2
  /\ \A k \in 1..2 :
       /\ Len(last.trail[k].execs) = Len(Prev(k).execs) + 1
       /\ last.trail[k].xs[last.stepped[k]] # Prev(k).xs[last.stepped[k]]

====
